---- MODULE Spec2Model ----
(***************************************************************************)
(* Model of the health-check monitoring engine of pipeline-monitor         *)
(* (internal/infrastructure/monitor/monitor.go), the SSE feed that reads   *)
(* its update channel (internal/handlers/handlers.go) and the status type  *)
(* of internal/domain/service.                                              *)
(*                                                                         *)
(* Every goroutine is a process with a program counter.  A goroutine is    *)
(* cut into steps at the points where it touches state shared with other   *)
(* goroutines: the root context, the WaitGroup, the activeChecks map       *)
(* (always under checksMutex, so each locked section is one step), the     *)
(* updates channel and the outbound request.                               *)
(***************************************************************************)
EXTENDS Integers, Sequences, FiniteSets, TLC

(***************************************************************************)
(* Bounds of the model.                                                    *)
(***************************************************************************)
\* capacity of the updates channel; make(chan ServiceUpdate, 100) in the
\* source, scaled down: the model runs the engine with a channel of capacity 1,
\* which the probes saturate, and with one of capacity UpdatesCap
UpdatesCap == 2
\* total number of checkService goroutines launched in one behaviour
MaxProbes == 2

\* identities of the monitored services
Targets == {"a", "b"}
\* results GetAll can return (ORDER BY name, no id twice): the table is empty,
\* holds service a, or holds a and b
Snapshots == {<<>>, <<"a">>, <<"a", "b">>}
\* values of int(time.Since(start).Milliseconds())
RTs == {7}
\* HTTP status codes a monitored service answers with
Codes == {100, 199, 200, 204, 301, 399, 400, 404, 500, 503}

(***************************************************************************)
(* service.Status                                                          *)
(***************************************************************************)
StatusHealthy == "healthy"
StatusUnhealthy == "unhealthy"
StatusUnknown == "unknown"
StatusTimeout == "timeout"
Status == {StatusHealthy, StatusUnhealthy, StatusUnknown, StatusTimeout}

VARIABLES
    started,       \* Start() has been called
    ctxDone,       \* m.ctx is cancelled
    wg,            \* counter of m.wg
    capacity,      \* cap(m.updates)
    closed,        \* close(m.updates) has been executed
    panicked,      \* a goroutine panicked (send on / close of a closed channel)
    stopPc,        \* position of the caller of Stop()
    loopPc,        \* position of monitorLoop
    snapshot,      \* services of the sweep in progress (result of GetAll)
    idx,           \* position of checkAllServices' range loop in snapshot
    listed,        \* history: the non-empty results of GetAll, one per sweep that launched probes
    probes,        \* the checkService goroutines launched so far, in launch order
    activeChecks,  \* m.activeChecks: service id -> probe whose cancel is stored (0: no key)
    updates,       \* buffer of m.updates
    aggPc,         \* position of processUpdates
    aggCur,        \* the update processUpdates received and is handling
    store,         \* services table: status and response_time columns per id
    ssePc,         \* position of one ServiceUpdatesSSE request
    accepted,      \* history: the updates whose send succeeded, in send order
    handled,       \* history: updates handleUpdate was called with, with the result of UpdateStatus
    sseSent,       \* history: updates the SSE handler wrote to its client
    cIn,           \* inputs of a stand-alone call of performHealthCheck
    cOut,          \* its result
    db,            \* the services table as the CRUD handlers see it: id -> row (NoRow: no row)
    now,           \* the database clock, NOW()
    req,           \* the update request a handler is serving, between GetByID and Update
    last,          \* history: the last repository call and its result
    checksMutex    \* m.checksMutex: 0 when free, else its holder (a probe, or StopCaller)

repoVars == <<db, now, req, last>>

vars == <<started, ctxDone, wg, capacity, closed, panicked, stopPc, loopPc, snapshot, idx,
          listed, probes, activeChecks, updates, aggPc, aggCur, store, ssePc,
          accepted, handled, sseSent, cIn, cOut, repoVars, checksMutex>>

engineVars == <<started, ctxDone, wg, capacity, closed, panicked, stopPc, loopPc, snapshot,
                idx, listed, probes, activeChecks, updates, aggPc, aggCur, store,
                ssePc, accepted, handled, sseSent, checksMutex>>

NoRow == [id |-> "", name |-> "", url |-> "", status |-> "", response_time |-> 0,
          last_check |-> 0, updated_at |-> 0]
NoReq == [pc |-> "idle", kind |-> "", id |-> "", svc |-> NoRow]
NoCall == [op |-> "", id |-> "", err |-> FALSE]

\* no CRUD request is served: the table of the handlers is left out
RepoIdle ==
    /\ db = [t \in Targets |-> NoRow]
    /\ now = 0
    /\ req = NoReq
    /\ last = NoCall

NoUpdate == [id |-> 0, ServiceID |-> "", Status |-> StatusUnknown, ResponseTime |-> 0]
NoInput == [urlOK |-> TRUE, err |-> FALSE, code |-> 0, ctxErr |-> "nil"]

ProbeIds == 1..Len(probes)

(***************************************************************************)
(* context.Context of one probe: "none" before checkService created it,    *)
(* "active", "canceled" (parent cancelled or cancel() called first),       *)
(* "deadline" (the 8 s timer fired first).  A finished context never       *)
(* changes its error again.  ctx.Err() is taken as read at the moment      *)
(* client.Do returns; nothing reads checkCtx after performHealthCheck.     *)
(***************************************************************************)
CtxErr(c) == IF c = "deadline" THEN "DeadlineExceeded"
             ELSE IF c = "canceled" THEN "Canceled" ELSE "nil"

\* mutant: a later call of the CancelFunc overwrites the error of the context
CancelOverwrites(c) == IF c \in {"active", "deadline"} THEN "canceled" ELSE c

\* a CancelFunc: the first call cancels, later calls do nothing
Cancel(c) == IF c = "active" THEN "canceled" ELSE c

\* mutant: the probe's context is derived from context.Background()
WithTimeoutBackground == "active"

\* context.WithTimeout(m.ctx, 8*time.Second): born cancelled under a cancelled parent
WithTimeout == IF ctxDone THEN "canceled" ELSE "active"

(***************************************************************************)
(* performHealthCheck(ctx, url).  urlOK: http.NewRequestWithContext        *)
(* accepted the url; err: client.Do returned an error; code: the status    *)
(* code of the response otherwise; ctxErr: ctx.Err() when Do returned.     *)
(***************************************************************************)
\* mutant: 400 counts as healthy
performHealthCheckUpTo400(urlOK, err, code, ctxErr) ==
    IF ~urlOK THEN StatusUnknown
    ELSE IF err THEN (IF ctxErr = "DeadlineExceeded" THEN StatusTimeout
                      ELSE StatusUnhealthy)
    ELSE IF code >= 200 /\ code <= 400 THEN StatusHealthy
    ELSE StatusUnhealthy

\* mutant: every finished context counts as a timeout
performHealthCheckAnyCtxErr(urlOK, err, code, ctxErr) ==
    IF ~urlOK THEN StatusUnknown
    ELSE IF err THEN (IF ctxErr /= "nil" THEN StatusTimeout
                      ELSE StatusUnhealthy)
    ELSE IF code >= 200 /\ code < 400 THEN StatusHealthy
    ELSE StatusUnhealthy

performHealthCheck(urlOK, err, code, ctxErr) ==
    IF ~urlOK THEN StatusUnknown
    ELSE IF err THEN (IF ctxErr = "DeadlineExceeded" THEN StatusTimeout
                      ELSE StatusUnhealthy)
    ELSE IF code >= 200 /\ code < 400 THEN StatusHealthy
    ELSE StatusUnhealthy

\* what client.Do can return under a context in state c: a request whose
\* context is finished fails; otherwise the service answers or the transport fails
DoResults(c) ==
    IF c = "active"
    THEN [err : {FALSE}, code : Codes] \cup {[err |-> TRUE, code |-> 0]}
    ELSE {[err |-> TRUE, code |-> 0]}

(***************************************************************************)
(* New                                                                     *)
(***************************************************************************)
EngineInit ==
    /\ capacity \in {1, UpdatesCap}
    /\ started = FALSE
    /\ ctxDone = FALSE
    /\ wg = 0
    /\ closed = FALSE
    /\ panicked = FALSE
    /\ stopPc = "idle"
    /\ loopPc = "none"
    /\ snapshot = <<>>
    /\ idx = 0
    /\ listed = <<>>
    /\ probes = <<>>
    /\ activeChecks = [t \in Targets |-> 0]
    /\ updates = <<>>
    /\ aggPc = "none"
    /\ aggCur = NoUpdate
    /\ store = [t \in Targets |-> [status |-> StatusUnknown, response_time |-> 0]]
    /\ ssePc = "none"
    /\ accepted = <<>>
    /\ handled = <<>>
    /\ sseSent = <<>>
    /\ checksMutex = 0

Init ==
    /\ EngineInit
    /\ cIn = NoInput
    /\ cOut = "none"
    /\ RepoIdle

(***************************************************************************)
(* Start                                                                   *)
(***************************************************************************)
Start ==
    /\ ~started
    /\ started' = TRUE
    /\ wg' = wg + 2
    /\ loopPc' = "initial"
    /\ aggPc' = "select"
    /\ UNCHANGED <<capacity, ctxDone, closed, panicked, stopPc, snapshot, idx, listed, probes,
                   activeChecks, updates, aggCur, store, ssePc, accepted, handled,
                   sseSent, cIn, cOut, repoVars, checksMutex>>

(***************************************************************************)
(* monitorLoop and checkAllServices                                        *)
(***************************************************************************)
\* monitorLoop calls checkAllServices: the initial check, or the ticker case
\* of the select (when m.ctx is done as well the select takes either case)
AtSweepStart == loopPc \in {"initial", "select"}

\* late (history): the goroutine was started when m.ctx was already cancelled
NewProbe(svc, sweep) ==
    [svc |-> svc, sweep |-> sweep, late |-> ctxDone, pc |-> "launched", ctx |-> "none",
     status |-> "none", rt |-> 0]

\* mutant: GetAll succeeds under a cancelled context
SweepListIgnoringCtx(snap) ==
    /\ AtSweepStart
    /\ Len(probes) + Len(snap) <= MaxProbes
    /\ listed' = IF snap = <<>> THEN listed ELSE Append(listed, snap)
    /\ snapshot' = snap
    /\ idx' = IF snap = <<>> THEN 0 ELSE 1
    /\ loopPc' = IF snap = <<>> THEN "select" ELSE "launching"
    /\ UNCHANGED <<capacity, started, ctxDone, wg, closed, panicked, stopPc, probes,
                   activeChecks, updates, aggPc, aggCur, store, ssePc, accepted, handled,
                   sseSent, cIn, cOut, repoVars, checksMutex>>

\* GetAll(m.ctx) returns the services: QueryContext succeeds only under a
\* live context.  With no service the range loop has nothing to do.
SweepList(snap) ==
    /\ AtSweepStart
    /\ ~ctxDone
    /\ Len(probes) + Len(snap) <= MaxProbes
    /\ listed' = IF snap = <<>> THEN listed ELSE Append(listed, snap)
    /\ snapshot' = snap
    /\ idx' = IF snap = <<>> THEN 0 ELSE 1
    /\ loopPc' = IF snap = <<>> THEN "select" ELSE "launching"
    /\ UNCHANGED <<capacity, started, ctxDone, wg, closed, panicked, stopPc, probes,
                   activeChecks, updates, aggPc, aggCur, store, ssePc, accepted, handled,
                   sseSent, cIn, cOut, repoVars, checksMutex>>

\* GetAll(m.ctx) returns an error; checkAllServices is at its error branch
SweepListFail ==
    /\ AtSweepStart
    /\ loopPc' = "failed"
    /\ UNCHANGED <<capacity, started, ctxDone, wg, closed, panicked, stopPc, snapshot, idx,
                   listed, probes, activeChecks, updates, aggPc, aggCur, store, ssePc,
                   accepted, handled, sseSent, cIn, cOut, repoVars, checksMutex>>

\* mutant: a failed listing ends monitorLoop
SweepFailFatal ==
    /\ loopPc = "failed"
    /\ loopPc' = "done"
    /\ wg' = wg - 1
    /\ UNCHANGED <<capacity, started, ctxDone, closed, panicked, stopPc, snapshot, idx,
                   listed, probes, activeChecks, updates, aggPc, aggCur, store, ssePc,
                   accepted, handled, sseSent, cIn, cOut, repoVars, checksMutex>>

\* the error branch of checkAllServices: log.Printf, return to monitorLoop,
\* which goes (back) to its select
SweepFailReturn ==
    /\ loopPc = "failed"
    /\ loopPc' = "select"
    /\ UNCHANGED <<capacity, started, ctxDone, wg, closed, panicked, stopPc, snapshot, idx,
                   listed, probes, activeChecks, updates, aggPc, aggCur, store, ssePc,
                   accepted, handled, sseSent, cIn, cOut, repoVars, checksMutex>>

\* mutant: the range loop stops one service early
RangeDoneEarly == idx + 1 >= Len(snapshot)

\* the range loop of checkAllServices is at the last service of the snapshot
RangeDone == idx >= Len(snapshot)

\* mutant: the goroutine is started without m.wg.Add(1)
SweepLaunchNoAdd ==
    /\ loopPc = "launching"
    /\ probes' = Append(probes, NewProbe(snapshot[idx], Len(listed)))
    /\ idx' = IF RangeDone THEN 0 ELSE idx + 1
    /\ snapshot' = IF RangeDone THEN <<>> ELSE snapshot
    /\ loopPc' = IF RangeDone THEN "select" ELSE "launching"
    /\ UNCHANGED <<capacity, started, ctxDone, wg, closed, panicked, stopPc, listed,
                   activeChecks, updates, aggPc, aggCur, store, ssePc, accepted, handled,
                   sseSent, cIn, cOut, repoVars, checksMutex>>

\* one iteration of the range loop: m.wg.Add(1); go m.checkService(svc)
SweepLaunch ==
    /\ loopPc = "launching"
    /\ wg' = wg + 1
    /\ probes' = Append(probes, NewProbe(snapshot[idx], Len(listed)))
    /\ idx' = IF RangeDone THEN 0 ELSE idx + 1
    /\ snapshot' = IF RangeDone THEN <<>> ELSE snapshot
    /\ loopPc' = IF RangeDone THEN "select" ELSE "launching"
    /\ UNCHANGED <<capacity, started, ctxDone, closed, panicked, stopPc, listed,
                   activeChecks, updates, aggPc, aggCur, store, ssePc, accepted, handled,
                   sseSent, cIn, cOut, repoVars, checksMutex>>

\* case <-m.ctx.Done() of monitorLoop's select; deferred m.wg.Done()
LoopExit ==
    /\ loopPc = "select"
    /\ ctxDone
    /\ loopPc' = "done"
    /\ wg' = wg - 1
    /\ UNCHANGED <<capacity, started, ctxDone, closed, panicked, stopPc, snapshot, idx, listed,
                   probes, activeChecks, updates, aggPc, aggCur, store, ssePc, accepted,
                   handled, sseSent, cIn, cOut, repoVars, checksMutex>>

(***************************************************************************)
(* checkService                                                            *)
(***************************************************************************)
\* m.activeChecks[svc.ID] = cancel
Register(reg, id, p) == [reg EXCEPT ![id] = p]

\* mutant: the deferred delete is missing
DeregisterNothing(reg, id) == reg

\* delete(m.activeChecks, svc.ID)
Deregister(reg, id) == [reg EXCEPT ![id] = 0]

\* checkCtx is created, its cancel is stored under the service id, and
\* performHealthCheck builds the request: a url that does not parse gives
\* StatusUnknown at once, otherwise client.Do is called
ProbeRegister(p, urlOK, rt) ==
    /\ probes[p].pc = "launched"
    /\ probes' = [probes EXCEPT
                     ![p].ctx = WithTimeout,
                     ![p].pc = IF urlOK THEN "request" ELSE "publish",
                     ![p].status = IF urlOK THEN "none"
                                   ELSE performHealthCheck(FALSE, FALSE, 0, CtxErr(WithTimeout)),
                     ![p].rt = IF urlOK THEN 0 ELSE rt]
    /\ activeChecks' = Register(activeChecks, probes[p].svc, p)
    /\ UNCHANGED <<capacity, started, ctxDone, wg, closed, panicked, stopPc, loopPc, snapshot, idx,
                   listed, updates, aggPc, aggCur, store, ssePc, accepted, handled,
                   sseSent, cIn, cOut, repoVars, checksMutex>>

\* mutant: the probe's context has no deadline (WithCancel for WithTimeout)
DeadlineNever(p) ==
    /\ FALSE
    /\ UNCHANGED vars

\* the 8 s timer of checkCtx fires while the request is outstanding
DeadlineFire(p) ==
    /\ probes[p].pc = "request"
    /\ probes[p].ctx = "active"
    /\ probes' = [probes EXCEPT ![p].ctx = "deadline"]
    /\ UNCHANGED <<capacity, started, ctxDone, wg, closed, panicked, stopPc, loopPc, snapshot, idx,
                   listed, activeChecks, updates, aggPc, aggCur, store, ssePc, accepted,
                   handled, sseSent, cIn, cOut, repoVars, checksMutex>>

\* client.Do returns, performHealthCheck classifies, responseTime is taken
ProbeCheck(p, res, rt) ==
    /\ probes[p].pc = "request"
    /\ res \in DoResults(probes[p].ctx)
    /\ probes' = [probes EXCEPT
                     ![p].status = performHealthCheck(TRUE, res.err, res.code,
                                                      CtxErr(probes[p].ctx)),
                     ![p].rt = rt,
                     ![p].pc = "publish"]
    /\ UNCHANGED <<capacity, started, ctxDone, wg, closed, panicked, stopPc, loopPc, snapshot, idx,
                   listed, activeChecks, updates, aggPc, aggCur, store, ssePc, accepted,
                   handled, sseSent, cIn, cOut, repoVars, checksMutex>>

UpdateOf(p) ==
    [id |-> p, ServiceID |-> probes[p].svc, Status |-> probes[p].status,
     ResponseTime |-> probes[p].rt]

\* the cases of checkService's select that can proceed; a send on a closed
\* channel proceeds (and panics)
ReadyCases ==
    (IF closed \/ Len(updates) < capacity THEN {"send"} ELSE {})
        \cup (IF ctxDone THEN {"ctxdone"} ELSE {})

\* mutant: the select has no default case
SelectCasesNoDefault == ReadyCases

\* select takes one of the ready cases, the default case when there is none
SelectCases == IF ReadyCases = {} THEN {"default"} ELSE ReadyCases

\* mutant: the newest update is put at the front of the buffer
SendFront(ch, u) == <<u>> \o ch

\* mutant: the channel buffers every value twice
SendTwice(ch, u) == Append(Append(ch, u), u)

\* m.updates <- u
Send(ch, u) == Append(ch, u)

\* mutant: the entry is deleted after a successful send only, not by a defer
ProbePublishLeakOnDrop(p) ==
    /\ probes[p].pc = "publish"
    /\ \E c \in SelectCases :
          /\ updates' = IF c = "send" /\ ~closed THEN Send(updates, UpdateOf(p)) ELSE updates
          /\ accepted' = IF c = "send" /\ ~closed THEN Append(accepted, UpdateOf(p))
                          ELSE accepted
          /\ panicked' = (panicked \/ (c = "send" /\ closed))
          /\ activeChecks' = IF c = "send" THEN Deregister(activeChecks, probes[p].svc)
                              ELSE activeChecks
    /\ probes' = [probes EXCEPT ![p].pc = "done", ![p].ctx = Cancel(probes[p].ctx),
                                ![p].status = "none", ![p].rt = 0]
    /\ wg' = wg - 1
    /\ UNCHANGED <<capacity, started, ctxDone, closed, stopPc, loopPc, snapshot, idx, listed,
                   aggPc, aggCur, store, ssePc, handled, sseSent, cIn, cOut, repoVars, checksMutex>>

\* the select of checkService, then the deferred calls: delete from
\* m.activeChecks, cancel(), m.wg.Done()
ProbePublish(p) ==
    /\ probes[p].pc = "publish"
    /\ \E c \in SelectCases :
          /\ updates' = IF c = "send" /\ ~closed THEN Send(updates, UpdateOf(p)) ELSE updates
          /\ accepted' = IF c = "send" /\ ~closed THEN Append(accepted, UpdateOf(p))
                          ELSE accepted
          /\ panicked' = (panicked \/ (c = "send" /\ closed))
    /\ probes' = [probes EXCEPT ![p].pc = "done", ![p].ctx = Cancel(probes[p].ctx),
                                ![p].status = "none", ![p].rt = 0]
    /\ activeChecks' = Deregister(activeChecks, probes[p].svc)
    /\ wg' = wg - 1
    /\ UNCHANGED <<capacity, started, ctxDone, closed, stopPc, loopPc, snapshot, idx, listed,
                   aggPc, aggCur, store, ssePc, handled, sseSent, cIn, cOut, repoVars, checksMutex>>

(***************************************************************************)
(* Stop                                                                    *)
(***************************************************************************)
\* m.cancel(): the root context and every context derived from it are cancelled
StopCancel ==
    /\ started
    /\ stopPc = "idle"
    /\ ctxDone' = TRUE
    /\ probes' = [p \in ProbeIds |-> [probes[p] EXCEPT !.ctx = Cancel(probes[p].ctx)]]
    /\ stopPc' = "walk"
    /\ UNCHANGED <<capacity, started, wg, closed, panicked, loopPc, snapshot, idx, listed,
                   activeChecks, updates, aggPc, aggCur, store, ssePc, accepted, handled,
                   sseSent, cIn, cOut, repoVars, checksMutex>>

\* the probes whose cancel function is a value of m.activeChecks
Registered(reg) == {reg[t] : t \in Targets} \ {0}

\* for _, cancelFunc := range m.activeChecks { cancelFunc() }, under checksMutex
StopWalk ==
    /\ stopPc = "walk"
    /\ probes' = [p \in ProbeIds |->
                    IF p \in Registered(activeChecks)
                    THEN [probes[p] EXCEPT !.ctx = Cancel(probes[p].ctx)]
                    ELSE probes[p]]
    /\ stopPc' = "wait"
    /\ UNCHANGED <<capacity, started, ctxDone, wg, closed, panicked, loopPc, snapshot, idx, listed,
                   activeChecks, updates, aggPc, aggCur, store, ssePc, accepted, handled,
                   sseSent, cIn, cOut, repoVars, checksMutex>>

\* mutant: Stop waits for monitorLoop only
WaitReturnsLoopOnly == loopPc = "done"

\* m.wg.Wait() returns when the counter is zero
WaitReturns == wg = 0

StopWait ==
    /\ stopPc = "wait"
    /\ WaitReturns
    /\ stopPc' = "close"
    /\ UNCHANGED <<capacity, started, ctxDone, wg, closed, panicked, loopPc, snapshot, idx, listed,
                   probes, activeChecks, updates, aggPc, aggCur, store, ssePc, accepted,
                   handled, sseSent, cIn, cOut, repoVars, checksMutex>>

\* close(m.updates), then Stop returns; closing a closed channel panics
StopClose ==
    /\ stopPc = "close"
    /\ closed' = TRUE
    /\ panicked' = (panicked \/ closed)
    /\ stopPc' = "returned"
    /\ UNCHANGED <<capacity, started, ctxDone, wg, loopPc, snapshot, idx, listed, probes,
                   activeChecks, updates, aggPc, aggCur, store, ssePc, accepted, handled,
                   sseSent, cIn, cOut, repoVars, checksMutex>>

(***************************************************************************)
(* processUpdates and handleUpdate                                         *)
(***************************************************************************)
\* <-m.updates: the receiver gets the oldest buffered value
\* mutant: the receive takes the newest buffered value
RecvNewest(ch) == ch[Len(ch)]
Recv(ch) == Head(ch)

\* case update, ok := <-m.updates with ok true
AggRecv ==
    /\ aggPc = "select"
    /\ updates /= <<>>
    /\ aggCur' = Recv(updates)
    /\ updates' = Tail(updates)
    /\ aggPc' = "handle"
    /\ UNCHANGED <<capacity, started, ctxDone, wg, closed, panicked, stopPc, loopPc, snapshot, idx,
                   listed, probes, activeChecks, store, ssePc, accepted, handled, sseSent,
                   cIn, cOut, repoVars, checksMutex>>

\* UpdateStatus: SET status, response_time WHERE id; ExecContext fails under
\* a cancelled context, and the call fails when the database or the row is gone
UpdateStatus(st, id, status, responseTime) ==
    [st EXCEPT ![id] = [status |-> status, response_time |-> responseTime]]

\* mutant: an update whose UpdateStatus failed is sent to the channel again
AggHandleRequeue(ok) ==
    /\ aggPc = "handle"
    /\ ok => ~ctxDone
    /\ store' = IF ok THEN UpdateStatus(store, aggCur.ServiceID, aggCur.Status,
                                        aggCur.ResponseTime)
                 ELSE store
    /\ updates' = IF ok THEN updates ELSE Send(updates, aggCur)
    /\ handled' = Append(handled, [update |-> aggCur, ok |-> ok])
    /\ aggCur' = NoUpdate
    /\ aggPc' = "select"
    /\ UNCHANGED <<capacity, started, ctxDone, wg, closed, panicked, stopPc, loopPc, snapshot, idx,
                   listed, probes, activeChecks, ssePc, accepted, sseSent,
                   cIn, cOut, repoVars, checksMutex>>

\* handleUpdate(update): UpdateStatus, log; returns to the select
AggHandle(ok) ==
    /\ aggPc = "handle"
    /\ ok => ~ctxDone
    /\ store' = IF ok THEN UpdateStatus(store, aggCur.ServiceID, aggCur.Status,
                                        aggCur.ResponseTime)
                 ELSE store
    /\ handled' = Append(handled, [update |-> aggCur, ok |-> ok])
    /\ aggCur' = NoUpdate
    /\ aggPc' = "select"
    /\ UNCHANGED <<capacity, started, ctxDone, wg, closed, panicked, stopPc, loopPc, snapshot, idx,
                   listed, probes, activeChecks, updates, ssePc, accepted, sseSent,
                   cIn, cOut, repoVars, checksMutex>>

\* mutant: processUpdates returns only when the channel is closed and empty
AggExitOnClose ==
    /\ aggPc = "select"
    /\ closed /\ updates = <<>>
    /\ aggPc' = "done"
    /\ wg' = wg - 1
    /\ UNCHANGED <<capacity, started, ctxDone, closed, panicked, stopPc, loopPc, snapshot, idx,
                   listed, probes, activeChecks, updates, aggCur, store, ssePc, accepted,
                   handled, sseSent, cIn, cOut, repoVars, checksMutex>>

\* processUpdates returns: case <-m.ctx.Done(), or !ok on the closed and
\* empty channel; deferred m.wg.Done()
AggExit ==
    /\ aggPc = "select"
    /\ (ctxDone \/ (closed /\ updates = <<>>))
    /\ aggPc' = "done"
    /\ wg' = wg - 1
    /\ UNCHANGED <<capacity, started, ctxDone, closed, panicked, stopPc, loopPc, snapshot, idx,
                   listed, probes, activeChecks, updates, aggCur, store, ssePc, accepted,
                   handled, sseSent, cIn, cOut, repoVars, checksMutex>>

(***************************************************************************)
(* GetUpdates and ServiceUpdatesSSE                                        *)
(***************************************************************************)
\* GetUpdates returns m.updates itself
GetUpdates == updates

\* a client opens /events/service-updates; the router serves after Start
SSEConnect ==
    /\ started
    /\ ssePc = "none"
    /\ ssePc' = "listen"
    /\ UNCHANGED <<capacity, started, ctxDone, wg, closed, panicked, stopPc, loopPc, snapshot, idx,
                   listed, probes, activeChecks, updates, aggPc, aggCur, store, accepted,
                   handled, sseSent, cIn, cOut, repoVars, checksMutex>>

\* mutant: the handler reads the head of the buffer without taking it out
SSERecvPeek ==
    /\ ssePc = "listen"
    /\ GetUpdates /= <<>>
    /\ Len(sseSent) < 2
    /\ sseSent' = Append(sseSent, Recv(GetUpdates))
    /\ UNCHANGED <<capacity, started, ctxDone, wg, closed, panicked, stopPc, loopPc, snapshot, idx,
                   listed, probes, activeChecks, updates, aggPc, aggCur, store, ssePc,
                   accepted, handled, cIn, cOut, repoVars, checksMutex>>

\* case update, ok := <-updates with ok true: written to the client
SSERecv ==
    /\ ssePc = "listen"
    /\ GetUpdates /= <<>>
    /\ sseSent' = Append(sseSent, Recv(GetUpdates))
    /\ updates' = Tail(GetUpdates)
    /\ UNCHANGED <<capacity, started, ctxDone, wg, closed, panicked, stopPc, loopPc, snapshot, idx,
                   listed, probes, activeChecks, aggPc, aggCur, store, ssePc, accepted,
                   handled, cIn, cOut, repoVars, checksMutex>>

\* mutant: the handler does not look at ok and waits on the closed channel again
SSEClosedIgnored ==
    /\ ssePc = "listen"
    /\ closed
    /\ GetUpdates = <<>>
    /\ UNCHANGED vars

\* !ok: the channel is closed and empty
SSEClosed ==
    /\ ssePc = "listen"
    /\ closed
    /\ GetUpdates = <<>>
    /\ ssePc' = "gone"
    /\ UNCHANGED <<capacity, started, ctxDone, wg, closed, panicked, stopPc, loopPc, snapshot, idx,
                   listed, probes, activeChecks, updates, aggPc, aggCur, store, accepted,
                   handled, sseSent, cIn, cOut, repoVars, checksMutex>>

\* case <-c.Request.Context().Done(): the client went away
SSEDisconnect ==
    /\ ssePc = "listen"
    /\ ssePc' = "gone"
    /\ UNCHANGED <<capacity, started, ctxDone, wg, closed, panicked, stopPc, loopPc, snapshot, idx,
                   listed, probes, activeChecks, updates, aggPc, aggCur, store, accepted,
                   handled, sseSent, cIn, cOut, repoVars, checksMutex>>

(***************************************************************************)
(* The engine: Start and Stop are each called once, Stop after Start       *)
(* (app.New calls Start, app.Shutdown calls Stop).                         *)
(***************************************************************************)
EngineNext ==
    \/ Start
    \/ \E snap \in Snapshots : SweepList(snap)
    \/ SweepListFail
    \/ SweepFailReturn
    \/ SweepLaunch
    \/ LoopExit
    \/ \E p \in ProbeIds, urlOK \in BOOLEAN, rt \in RTs : ProbeRegister(p, urlOK, rt)
    \/ \E p \in ProbeIds : DeadlineFire(p)
    \/ \E p \in ProbeIds, res \in [err : BOOLEAN, code : Codes \cup {0}], rt \in RTs :
          ProbeCheck(p, res, rt)
    \/ \E p \in ProbeIds : ProbePublish(p)
    \/ StopCancel
    \/ StopWalk
    \/ StopWait
    \/ StopClose
    \/ AggRecv
    \/ \E ok \in BOOLEAN : AggHandle(ok)
    \/ AggExit

\* one client of /events/service-updates
FeedNext ==
    \/ SSEConnect
    \/ SSERecv
    \/ SSEClosed
    \/ SSEDisconnect

Next == EngineNext \/ FeedNext

\* the engine and a client of the SSE feed
Spec == Init /\ [][Next]_vars

\* the engine while no client is connected to the SSE feed
SpecNoFeed == Init /\ [][EngineNext]_vars

\* the engine and a client of the feed whose handler goroutine is scheduled:
\* a receive that is ready is taken, from the open or from the closed channel
SpecFeedLive == Init /\ [][Next]_vars /\ WF_vars(SSERecv) /\ WF_vars(SSEClosed)

(***************************************************************************)
(* Repeated lifecycle calls: Stop is called again after a call of Stop has *)
(* returned, Start is called again after a shutdown.                       *)
(***************************************************************************)
\* a further call of Stop: m.cancel() on the cancelled root context does
\* nothing new; the caller goes on to the walk, wg.Wait and close(m.updates)
StopAgain ==
    /\ stopPc = "returned"
    /\ ctxDone' = TRUE
    /\ probes' = [p \in ProbeIds |-> [probes[p] EXCEPT !.ctx = Cancel(probes[p].ctx)]]
    /\ stopPc' = "walk"
    /\ UNCHANGED <<capacity, started, wg, closed, panicked, loopPc, snapshot, idx, listed,
                   activeChecks, updates, aggPc, aggCur, store, ssePc, accepted, handled,
                   sseSent, cIn, cOut, repoVars, checksMutex>>

\* a further call of Start once the goroutines of the first have returned:
\* m.ctx and m.updates are those New created
StartAgain ==
    /\ started
    /\ loopPc = "done"
    /\ aggPc = "done"
    /\ wg' = wg + 2
    /\ loopPc' = "initial"
    /\ aggPc' = "select"
    /\ UNCHANGED <<capacity, started, ctxDone, closed, panicked, stopPc, snapshot, idx, listed,
                   probes, activeChecks, updates, aggCur, store, ssePc, accepted, handled,
                   sseSent, cIn, cOut, repoVars, checksMutex>>

LifecycleNext ==
    \/ EngineNext
    \/ StopAgain
    \/ StartAgain

SpecLifecycle == Init /\ [][LifecycleNext]_vars

(***************************************************************************)
(* The registry under its lock: checkService and Stop with the Lock, the   *)
(* access to m.activeChecks and the Unlock as steps of their own.  The     *)
(* other specifications take each of the three critical sections as one    *)
(* step.  A probe goes launched, locked, stored, request, publish,         *)
(* cleanup, deleting, deleted, done; Stop goes walk, walking, walked, wait.*)
(***************************************************************************)
\* the caller of Stop as a holder of m.checksMutex
StopCaller == -1

\* mutant: Lock returns while another goroutine holds the mutex
LockNoWait(h) == checksMutex' = h

\* m.checksMutex.Lock(): blocks until the mutex is free
Lock(h) == checksMutex = 0 /\ checksMutex' = h

\* m.checksMutex.Unlock()
Unlock(h) == checksMutex = h /\ checksMutex' = 0

\* checkCtx is created; m.checksMutex.Lock() before the store
CheckLock(p) ==
    /\ probes[p].pc = "launched"
    /\ Lock(p)
    /\ probes' = [probes EXCEPT ![p].ctx = WithTimeout, ![p].pc = "locked"]
    /\ UNCHANGED <<capacity, started, ctxDone, wg, closed, panicked, stopPc, loopPc, snapshot, idx,
                   listed, activeChecks, updates, aggPc, aggCur, store, ssePc, accepted,
                   handled, sseSent, cIn, cOut, repoVars>>

\* m.activeChecks[svc.ID] = cancel
CheckStore(p) ==
    /\ probes[p].pc = "locked"
    /\ activeChecks' = Register(activeChecks, probes[p].svc, p)
    /\ probes' = [probes EXCEPT ![p].pc = "stored"]
    /\ UNCHANGED <<capacity, started, ctxDone, wg, closed, panicked, stopPc, loopPc, snapshot, idx,
                   listed, updates, aggPc, aggCur, store, ssePc, accepted, handled,
                   sseSent, cIn, cOut, repoVars, checksMutex>>

\* m.checksMutex.Unlock(); performHealthCheck builds the request: a url that
\* does not parse gives StatusUnknown at once, otherwise client.Do is called
CheckUnlock(p, urlOK, rt) ==
    /\ probes[p].pc = "stored"
    /\ Unlock(p)
    /\ probes' = [probes EXCEPT
                     ![p].pc = IF urlOK THEN "request" ELSE "publish",
                     ![p].status = IF urlOK THEN "none"
                                   ELSE performHealthCheck(FALSE, FALSE, 0,
                                                           CtxErr(probes[p].ctx)),
                     ![p].rt = IF urlOK THEN 0 ELSE rt]
    /\ UNCHANGED <<capacity, started, ctxDone, wg, closed, panicked, stopPc, loopPc, snapshot, idx,
                   listed, activeChecks, updates, aggPc, aggCur, store, ssePc, accepted,
                   handled, sseSent, cIn, cOut, repoVars>>

\* the select of checkService: send, ctx.Done() or default; the deferred
\* functions run after it
CheckSelect(p) ==
    /\ probes[p].pc = "publish"
    /\ \E c \in SelectCases :
          /\ updates' = IF c = "send" /\ ~closed THEN Send(updates, UpdateOf(p)) ELSE updates
          /\ accepted' = IF c = "send" /\ ~closed THEN Append(accepted, UpdateOf(p))
                          ELSE accepted
          /\ panicked' = (panicked \/ (c = "send" /\ closed))
    /\ probes' = [probes EXCEPT ![p].pc = "cleanup", ![p].status = "none", ![p].rt = 0]
    /\ UNCHANGED <<capacity, started, ctxDone, wg, closed, stopPc, loopPc, snapshot, idx, listed,
                   activeChecks, aggPc, aggCur, store, ssePc, handled, sseSent, cIn, cOut,
                   repoVars, checksMutex>>

\* the deferred function: m.checksMutex.Lock()
CleanupLock(p) ==
    /\ probes[p].pc = "cleanup"
    /\ Lock(p)
    /\ probes' = [probes EXCEPT ![p].pc = "deleting"]
    /\ UNCHANGED <<capacity, started, ctxDone, wg, closed, panicked, stopPc, loopPc, snapshot, idx,
                   listed, activeChecks, updates, aggPc, aggCur, store, ssePc, accepted,
                   handled, sseSent, cIn, cOut, repoVars>>

\* delete(m.activeChecks, svc.ID)
CleanupDelete(p) ==
    /\ probes[p].pc = "deleting"
    /\ activeChecks' = Deregister(activeChecks, probes[p].svc)
    /\ probes' = [probes EXCEPT ![p].pc = "deleted"]
    /\ UNCHANGED <<capacity, started, ctxDone, wg, closed, panicked, stopPc, loopPc, snapshot, idx,
                   listed, updates, aggPc, aggCur, store, ssePc, accepted, handled,
                   sseSent, cIn, cOut, repoVars, checksMutex>>

\* m.checksMutex.Unlock(), then the deferred cancel() and m.wg.Done()
CleanupUnlock(p) ==
    /\ probes[p].pc = "deleted"
    /\ Unlock(p)
    /\ probes' = [probes EXCEPT ![p].pc = "done", ![p].ctx = Cancel(probes[p].ctx)]
    /\ wg' = wg - 1
    /\ UNCHANGED <<capacity, started, ctxDone, closed, panicked, stopPc, loopPc, snapshot, idx,
                   listed, activeChecks, updates, aggPc, aggCur, store, ssePc, accepted,
                   handled, sseSent, cIn, cOut, repoVars>>

\* Stop: m.checksMutex.Lock()
WalkLock ==
    /\ stopPc = "walk"
    /\ Lock(StopCaller)
    /\ stopPc' = "walking"
    /\ UNCHANGED <<capacity, started, ctxDone, wg, closed, panicked, loopPc, snapshot, idx, listed,
                   probes, activeChecks, updates, aggPc, aggCur, store, ssePc, accepted,
                   handled, sseSent, cIn, cOut, repoVars>>

\* for _, cancelFunc := range m.activeChecks { cancelFunc() }
WalkRange ==
    /\ stopPc = "walking"
    /\ probes' = [p \in ProbeIds |->
                    IF p \in Registered(activeChecks)
                    THEN [probes[p] EXCEPT !.ctx = Cancel(probes[p].ctx)]
                    ELSE probes[p]]
    /\ stopPc' = "walked"
    /\ UNCHANGED <<capacity, started, ctxDone, wg, closed, panicked, loopPc, snapshot, idx, listed,
                   activeChecks, updates, aggPc, aggCur, store, ssePc, accepted, handled,
                   sseSent, cIn, cOut, repoVars, checksMutex>>

\* m.checksMutex.Unlock()
WalkUnlock ==
    /\ stopPc = "walked"
    /\ Unlock(StopCaller)
    /\ stopPc' = "wait"
    /\ UNCHANGED <<capacity, started, ctxDone, wg, closed, panicked, loopPc, snapshot, idx, listed,
                   probes, activeChecks, updates, aggPc, aggCur, store, ssePc, accepted,
                   handled, sseSent, cIn, cOut, repoVars>>

MutexNext ==
    \/ Start
    \/ \E snap \in Snapshots : SweepList(snap)
    \/ SweepListFail
    \/ SweepFailReturn
    \/ SweepLaunch
    \/ LoopExit
    \/ \E p \in ProbeIds : CheckLock(p)
    \/ \E p \in ProbeIds : CheckStore(p)
    \/ \E p \in ProbeIds, urlOK \in BOOLEAN, rt \in RTs : CheckUnlock(p, urlOK, rt)
    \/ \E p \in ProbeIds : DeadlineFire(p)
    \/ \E p \in ProbeIds, res \in [err : BOOLEAN, code : Codes \cup {0}], rt \in RTs :
          ProbeCheck(p, res, rt)
    \/ \E p \in ProbeIds : CheckSelect(p)
    \/ \E p \in ProbeIds : CleanupLock(p)
    \/ \E p \in ProbeIds : CleanupDelete(p)
    \/ \E p \in ProbeIds : CleanupUnlock(p)
    \/ StopCancel
    \/ WalkLock
    \/ WalkRange
    \/ WalkUnlock
    \/ StopWait
    \/ StopClose
    \/ AggRecv
    \/ \E ok \in BOOLEAN : AggHandle(ok)
    \/ AggExit

\* the engine with the steps of the three critical sections
SpecMutex == Init /\ [][MutexNext]_vars

(***************************************************************************)
(* The engine under a fair scheduler.  Every goroutine that can take a     *)
(* step eventually takes it.  A select with several ready cases takes each *)
(* of them with equal probability, so a case that is ready again and again *)
(* is eventually taken (strong fairness for the ctx.Done cases).  A call   *)
(* of the repository returns; a request whose context is finished          *)
(* returns; the timer of a probe's context fires.  Nothing is assumed of   *)
(* the ticker, of the monitored services, or of a caller of Stop.          *)
(***************************************************************************)
Fairness ==
    /\ WF_vars(loopPc = "initial" /\ (SweepListFail \/ \E snap \in Snapshots : SweepList(snap)))
    /\ WF_vars(SweepFailReturn)
    /\ WF_vars(SweepLaunch)
    /\ SF_vars(LoopExit)
    /\ \A p \in 1..MaxProbes :
          /\ WF_vars(p \in ProbeIds /\ \E urlOK \in BOOLEAN, rt \in RTs : ProbeRegister(p, urlOK, rt))
          /\ WF_vars(p \in ProbeIds /\ DeadlineFire(p))
          /\ WF_vars(/\ p \in ProbeIds
                     /\ probes[p].ctx /= "active"
                     /\ \E res \in [err : BOOLEAN, code : Codes \cup {0}], rt \in RTs :
                            ProbeCheck(p, res, rt))
          /\ WF_vars(p \in ProbeIds /\ ProbePublish(p))
    /\ WF_vars(StopWalk)
    /\ WF_vars(StopWait)
    /\ WF_vars(StopClose)
    /\ WF_vars(\E ok \in BOOLEAN : AggHandle(ok))
    /\ SF_vars(AggExit)

SpecLive == Init /\ [][EngineNext]_vars /\ Fairness

(***************************************************************************)
(* performHealthCheck on its own: every combination of its inputs          *)
(***************************************************************************)
ClassifyInputs ==
    [urlOK : BOOLEAN, err : BOOLEAN, code : Codes \cup {0},
     ctxErr : {"nil", "Canceled", "DeadlineExceeded"}]

ClassifyInit ==
    /\ EngineInit
    /\ cIn \in {i \in ClassifyInputs : i.err <=> i.code = 0}
    /\ cOut = "none"
    /\ RepoIdle

Classify ==
    /\ cOut = "none"
    /\ cOut' = performHealthCheck(cIn.urlOK, cIn.err, cIn.code, cIn.ctxErr)
    /\ UNCHANGED <<cIn, engineVars, repoVars>>

ClassifyNext == Classify

SpecClassify == ClassifyInit /\ [][ClassifyNext]_vars

(***************************************************************************)
(* The services table and its writers: the CRUD handlers and handleUpdate. *)
(* A row carries id, name, url, status, response_time, last_check and      *)
(* updated_at; description and tags are written by the same statements as  *)
(* name and url and are left out, created_at is written once.  A handler   *)
(* that reads before it writes (GetByID, then Update) is cut between the   *)
(* two calls; every call of the repository is one statement on the table.  *)
(***************************************************************************)
\* number of repository calls in one behaviour
MaxCalls == 3

Names == {"n1", "n2"}
URLs == {"u1", "u2"}

\* INSERT INTO services (id, name, url, status, ...) VALUES (..., NOW(), NOW());
\* response_time and last_check take their column defaults; id is the primary key
Create(tbl, svc, t) ==
    IF tbl[svc.id] /= NoRow
    THEN [db |-> tbl, err |-> TRUE]
    ELSE [db |-> [tbl EXCEPT ![svc.id] =
                     [id |-> svc.id, name |-> svc.name, url |-> svc.url,
                      status |-> svc.status, response_time |-> 0,
                      last_check |-> t, updated_at |-> t]],
          err |-> FALSE]

\* SELECT ... WHERE id = $1; NoRow: sql.ErrNoRows
GetByID(tbl, id) == tbl[id]

\* mutant: the UPDATE statement resets the status column as well
UpdateResetsStatus(tbl, svc, t) ==
    IF tbl[svc.id] = NoRow
    THEN [db |-> tbl, err |-> TRUE]
    ELSE [db |-> [tbl EXCEPT ![svc.id].name = svc.name, ![svc.id].url = svc.url,
                             ![svc.id].status = svc.status,
                             ![svc.id].updated_at = t],
          err |-> FALSE]

\* UPDATE services SET name, url, description, tags, updated_at = NOW()
\* WHERE id = svc.ID; no row affected is an error
Update(tbl, svc, t) ==
    IF tbl[svc.id] = NoRow
    THEN [db |-> tbl, err |-> TRUE]
    ELSE [db |-> [tbl EXCEPT ![svc.id].name = svc.name, ![svc.id].url = svc.url,
                             ![svc.id].updated_at = t],
          err |-> FALSE]

\* DELETE FROM services WHERE id = $1; no row affected is an error
Delete(tbl, id) ==
    IF tbl[id] = NoRow
    THEN [db |-> tbl, err |-> TRUE]
    ELSE [db |-> [tbl EXCEPT ![id] = NoRow], err |-> FALSE]

\* mutant: the statement is an upsert (INSERT ... ON CONFLICT DO UPDATE)
RepoUpdateStatusUpsert(tbl, id, status, responseTime, t) ==
    IF tbl[id] = NoRow
    THEN [db |-> [tbl EXCEPT ![id] = [NoRow EXCEPT !.id = id, !.status = status,
                                                  !.response_time = responseTime,
                                                  !.last_check = t, !.updated_at = t]],
          err |-> FALSE]
    ELSE [db |-> [tbl EXCEPT ![id].status = status,
                             ![id].response_time = responseTime,
                             ![id].last_check = t, ![id].updated_at = t],
          err |-> FALSE]

\* mutant: the WHERE clause is missing
RepoUpdateStatusAllRows(tbl, id, status, responseTime, t) ==
    IF tbl[id] = NoRow
    THEN [db |-> tbl, err |-> TRUE]
    ELSE [db |-> [x \in Targets |->
                     IF tbl[x] = NoRow THEN NoRow
                     ELSE [tbl[x] EXCEPT !.status = status,
                                         !.response_time = responseTime,
                                         !.last_check = t, !.updated_at = t]],
          err |-> FALSE]

\* UPDATE services SET status, response_time, last_check = NOW(),
\* updated_at = NOW() WHERE id = $1; no row affected is an error
RepoUpdateStatus(tbl, id, status, responseTime, t) ==
    IF tbl[id] = NoRow
    THEN [db |-> tbl, err |-> TRUE]
    ELSE [db |-> [tbl EXCEPT ![id].status = status,
                             ![id].response_time = responseTime,
                             ![id].last_check = t, ![id].updated_at = t],
          err |-> FALSE]

\* the form of UpdateService: name and url are required
FormBodies == [id : {""}, name : Names, url : URLs, status : {""}]

\* the JSON body of APIUpdateService: any field of service.Service, "" when
\* the body does not have it
JsonBodies == [id : Targets \cup {""}, name : {"", "n2"}, url : {"", "u2"},
               status : {"", StatusHealthy}]

\* UpdateService copies the form fields into the service GetByID returned;
\* APIUpdateService has c.ShouldBindJSON(svc) overwrite every field of it the
\* body carries, ID and Status included
Bind(kind, svc, body) ==
    IF kind = "form"
    THEN [svc EXCEPT !.name = body.name, !.url = body.url]
    ELSE [svc EXCEPT !.id = IF body.id = "" THEN @ ELSE body.id,
                     !.name = IF body.name = "" THEN @ ELSE body.name,
                     !.url = IF body.url = "" THEN @ ELSE body.url,
                     !.status = IF body.status = "" THEN @ ELSE body.status]

\* the tables New finds: per id no row, or a row as a create handler left it
RepoInit ==
    /\ EngineInit
    /\ capacity = 1
    /\ cIn = NoInput
    /\ cOut = "none"
    /\ db \in {d \in [Targets -> {NoRow} \cup
                                  [id : Targets, name : Names, url : URLs,
                                   status : {StatusUnknown}, response_time : {0},
                                   last_check : {0}, updated_at : {0}]] :
                 \A t \in Targets : d[t] = NoRow \/ d[t].id = t}
    /\ now = 0
    /\ req = NoReq
    /\ last = NoCall

\* CreateService and APICreateService: a new uuid, Status = StatusUnknown
CreateService(id, name, url) ==
    /\ now < MaxCalls
    /\ db[id] = NoRow
    /\ LET r == Create(db, [NoRow EXCEPT !.id = id, !.name = name, !.url = url,
                                        !.status = StatusUnknown], now + 1)
       IN  /\ db' = r.db
           /\ last' = [op |-> "Create", id |-> id, err |-> r.err]
    /\ now' = now + 1
    /\ UNCHANGED <<req, engineVars, cIn, cOut>>

\* DeleteService and APIDeleteService
DeleteService(id) ==
    /\ now < MaxCalls
    /\ LET r == Delete(db, id)
       IN  /\ db' = r.db
           /\ last' = [op |-> "Delete", id |-> id, err |-> r.err]
    /\ now' = now + 1
    /\ UNCHANGED <<req, engineVars, cIn, cOut>>

\* UpdateService and APIUpdateService, first half: GetByID(id), then the
\* request is bound to the service read; not found ends the request
UpdateGet(kind, id, body) ==
    /\ now < MaxCalls
    /\ req.pc = "idle"
    /\ req' = IF GetByID(db, id) = NoRow THEN NoReq
              ELSE [pc |-> "bound", kind |-> kind, id |-> id,
                    svc |-> Bind(kind, GetByID(db, id), body)]
    /\ last' = [op |-> "GetByID", id |-> id, err |-> GetByID(db, id) = NoRow]
    /\ now' = now + 1
    /\ UNCHANGED <<db, engineVars, cIn, cOut>>

\* second half: h.serviceRepo.Update(ctx, svc)
UpdateExec ==
    /\ now < MaxCalls
    /\ req.pc = "bound"
    /\ LET r == Update(db, req.svc, now + 1)
       IN  /\ db' = r.db
           /\ last' = [op |-> "Update", id |-> req.id, err |-> r.err]
    /\ req' = NoReq
    /\ now' = now + 1
    /\ UNCHANGED <<engineVars, cIn, cOut>>

\* handleUpdate: m.repo.UpdateStatus(m.ctx, update.ServiceID, update.Status,
\* update.ResponseTime)
RecordOutcome(id, status, responseTime) ==
    /\ now < MaxCalls
    /\ LET r == RepoUpdateStatus(db, id, status, responseTime, now + 1)
       IN  /\ db' = r.db
           /\ last' = [op |-> "UpdateStatus", id |-> id, err |-> r.err]
    /\ now' = now + 1
    /\ UNCHANGED <<req, engineVars, cIn, cOut>>

RepoNext ==
    \/ \E id \in Targets, name \in Names, url \in URLs : CreateService(id, name, url)
    \/ \E id \in Targets : DeleteService(id)
    \/ \E id \in Targets, body \in FormBodies : UpdateGet("form", id, body)
    \/ \E id \in Targets, body \in JsonBodies : UpdateGet("api", id, body)
    \/ UpdateExec
    \/ \E id \in Targets, status \in Status, rt \in RTs : RecordOutcome(id, status, rt)

SpecRepo == RepoInit /\ [][RepoNext]_vars

(***************************************************************************)
(* Properties                                                              *)
(***************************************************************************)
Range(q) == {q[i] : i \in 1..Len(q)}

AllProbesDone == \A p \in ProbeIds : probes[p].pc = "done"

\* C1: when Stop has returned, monitorLoop, processUpdates and every
\* checkService goroutine ever started have finished, and from then on no
\* sweep is listed and no probe is started.
C1_StopJoinsEverything ==
    /\ [](stopPc = "returned" => loopPc = "done" /\ aggPc = "done" /\ AllProbesDone)
    /\ [][stopPc = "returned" =>
             probes' = probes /\ listed' = listed /\ loopPc' = loopPc]_vars

\* Stop has returned after probes that were cut short by the shutdown: the
\* channel had room for every probe, yet none got its update accepted
C1_Witness ==
    /\ stopPc = "returned"
    /\ Len(probes) = MaxProbes
    /\ capacity >= MaxProbes
    /\ accepted = <<>>

\* C2: a probe that reaches its select while the channel holds capacity
\* updates can always take its step, and that step leaves the channel as it
\* was, ends the probe and leaves no entry for its service in activeChecks.
C2_FullChannelDrops ==
    /\ [](\A p \in ProbeIds : probes[p].pc = "publish" => ENABLED ProbePublish(p))
    /\ [][\A p \in ProbeIds :
             (/\ probes[p].pc = "publish"
              /\ probes'[p].pc /= "publish"
              /\ Len(updates) = capacity
              /\ ~closed)
             => (/\ updates' = updates
                 /\ accepted' = accepted
                 /\ probes'[p].pc = "done"
                 /\ activeChecks'[probes[p].svc] = 0)]_vars

\* a probe ended by the default case: the root context is live, the channel
\* is full and the probe's update is not among the accepted ones
C2_Witness ==
    \E p \in ProbeIds :
        /\ probes[p].pc = "done"
        /\ ~ctxDone
        /\ Len(updates) = capacity
        /\ \A i \in 1..Len(accepted) : accepted[i].id /= p

\* C3: no goroutine sends on the closed channel; when the channel is closed
\* every probe has finished; and once wg.Wait has returned the counter stays
\* zero and monitorLoop, the only caller of wg.Add, has finished.
C3_CloseAfterProducers ==
    /\ ~panicked
    /\ closed => AllProbesDone
    /\ stopPc \in {"close", "returned"} => wg = 0 /\ loopPc = "done" /\ AllProbesDone

\* the channel is closed after a shutdown that overtook a sweep: a probe was
\* started after m.cancel()
C3_Witness ==
    /\ closed
    /\ \E p \in ProbeIds : probes[p].late

\* the updates handleUpdate has been called with, in call order
HandledUpdates == [i \in 1..Len(handled) |-> handled[i].update]

\* C4: every update handleUpdate has processed, whether UpdateStatus failed or
\* not, has been forwarded to the feed the subscribers read: it is in the
\* channel GetUpdates hands out or has been written to a subscriber.
C4_HandledIsForwarded ==
    \A i \in 1..Len(handled) :
        handled[i].update \in Range(GetUpdates) \cup Range(sseSent)

\* C5: processUpdates is the only receiver of the channel: an accepted update
\* is still buffered, or is the one processUpdates holds, or has been handled.
C5_OnlyAggregatorReceives ==
    \A i \in 1..Len(accepted) :
        \/ accepted[i] \in Range(updates)
        \/ accepted[i] = aggCur
        \/ accepted[i] \in Range(HandledUpdates)

\* C6: processUpdates returns only after the channel has been drained: when it
\* has returned, handleUpdate has been called for every accepted update.
C6_AggregatorDrains ==
    aggPc = "done" =>
        \A i \in 1..Len(accepted) : accepted[i] \in Range(HandledUpdates)

\* the service ids of the probes started by sweep k, in start order
LaunchedBy(k) ==
    LET OfSweep(pr) == pr.sweep = k
        ps == SelectSeq(probes, OfSweep)
    IN  [i \in 1..Len(ps) |-> ps[i].svc]

\* C7: a sweep that has gone through its range loop has started exactly one
\* probe per service of its snapshot, in snapshot order; the sweep still in
\* its range loop has done so for the services it has visited.
C7_OneProbePerTarget ==
    \A k \in 1..Len(listed) :
        LaunchedBy(k) = IF k = Len(listed) /\ loopPc = "launching"
                        THEN SubSeq(listed[k], 1, idx - 1)
                        ELSE listed[k]

\* a second sweep has started its probe for a service while the probe the
\* first sweep started for the same service is still waiting for its answer
C7_Witness ==
    /\ Len(listed) = 2
    /\ loopPc = "select"
    /\ probes[1].pc = "request"
    /\ probes[2].pc = "launched"
    /\ probes[1].svc = probes[2].svc

\* C8: performHealthCheck returns one of the four statuses; unknown iff the
\* request could not be built; for a response, healthy iff 200 <= code < 400
\* and unhealthy otherwise; for a failed request whose context has not
\* exceeded its deadline (transport failure, cancellation), unhealthy.
C8_Classification ==
    cOut /= "none" =>
        /\ cOut \in Status
        /\ cOut = StatusUnknown <=> ~cIn.urlOK
        /\ (cIn.urlOK /\ ~cIn.err) =>
               /\ cOut = StatusHealthy <=> (200 <= cIn.code /\ cIn.code < 400)
               /\ cOut /= StatusHealthy => cOut = StatusUnhealthy
        /\ (cIn.urlOK /\ cIn.err /\ cIn.ctxErr /= "DeadlineExceeded") =>
               cOut = StatusUnhealthy

\* a 400 answer has been classified unhealthy
C8_Witness ==
    /\ cOut = StatusUnhealthy
    /\ cIn.urlOK /\ ~cIn.err /\ cIn.code = 400

AcceptedAt(u) == CHOOSE i \in 1..Len(accepted) : accepted[i] = u

\* C10: handleUpdate is called with accepted updates only, and in the order
\* in which the channel accepted them.
C10_Fifo ==
    /\ \A i \in 1..Len(handled) : handled[i].update \in Range(accepted)
    /\ \A i, j \in 1..Len(handled) :
          i < j => AcceptedAt(handled[i].update) < AcceptedAt(handled[j].update)

\* two updates went through a channel with room for both, and the update of
\* the service listed second in the sweep was handled first
C10_Witness ==
    /\ capacity = UpdatesCap
    /\ Len(handled) = 2
    /\ Len(listed) = 1
    /\ handled[1].update.ServiceID = listed[1][2]
    /\ handled[2].update.ServiceID = listed[1][1]

\* C11: every update handleUpdate was called with equals, field by field, the
\* update exactly one probe got accepted by the channel, and no update is
\* handled twice; no probe gets more than one update accepted; what is still
\* buffered or in the hands of processUpdates is an accepted update that has
\* not been handled.  The same holds while full-channel drops occur.
C11_ExactlyOnce ==
    /\ \A i \in 1..Len(handled) :
          Cardinality({j \in 1..Len(accepted) : accepted[j] = handled[i].update}) = 1
    /\ \A i, j \in 1..Len(handled) :
          i /= j => handled[i].update.id /= handled[j].update.id
    /\ \A i, j \in 1..Len(accepted) : i /= j => accepted[i].id /= accepted[j].id
    /\ \A i \in 1..Len(accepted) :
          /\ accepted[i].id \in ProbeIds
          /\ accepted[i].ServiceID = probes[accepted[i].id].svc
          /\ accepted[i].Status \in Status
          /\ accepted[i].ResponseTime \in RTs
    /\ \A i, j \in 1..Len(updates) : i /= j => updates[i].id /= updates[j].id
    /\ \A u \in Range(updates) \cup ({aggCur} \ {NoUpdate}) :
          u \in Range(accepted) /\ u \notin Range(HandledUpdates)
    /\ aggCur \notin Range(updates)

\* the channel of capacity 1 was saturated while the root context was live:
\* of the probes started, all finished, one got its update accepted, the
\* others were dropped, and handleUpdate has run for the accepted one
C11_Witness ==
    /\ ~ctxDone
    /\ Len(probes) = MaxProbes
    /\ AllProbesDone
    /\ Len(accepted) = 1
    /\ Len(handled) = 1

\* C12: a call of GetAll that fails changes nothing but the position of
\* monitorLoop: no probe is started, nothing is listed, the counter, the
\* registry, the channel and the store stay as they are; monitorLoop then
\* returns to its select, where the next tick can call GetAll again;
\* monitorLoop ends only at its select under a cancelled root context, and
\* processUpdates ends only after the root context was cancelled or the
\* channel closed.
C12_ListingFailureSkipsSweep ==
    /\ [][(loopPc /= "failed" /\ loopPc' = "failed") =>
             /\ loopPc \in {"initial", "select"}
             /\ UNCHANGED <<started, ctxDone, wg, capacity, closed, panicked, stopPc,
                            snapshot, idx, listed, probes, activeChecks, updates, aggPc,
                            aggCur, store, accepted, handled>>]_vars
    /\ [][(loopPc = "failed" /\ loopPc' /= "failed") =>
             /\ loopPc' = "select"
             /\ UNCHANGED <<started, ctxDone, wg, capacity, closed, panicked, stopPc,
                            snapshot, idx, listed, probes, activeChecks, updates, aggPc,
                            aggCur, store, accepted, handled>>]_vars
    /\ [](loopPc = "failed" => ENABLED SweepFailReturn)
    /\ [](loopPc = "select" =>
             /\ ENABLED SweepListFail
             /\ ~ctxDone => ENABLED SweepList(<<>>))
    /\ [][(loopPc /= "done" /\ loopPc' = "done") => (loopPc = "select" /\ ctxDone)]_vars
    /\ [][(aggPc /= "done" /\ aggPc' = "done") => (ctxDone \/ closed)]_vars

\* GetAll has just failed at a tick under a live root context, after a sweep
\* that started probes; processUpdates is handling an update of that sweep
C12_Witness ==
    /\ loopPc = "failed"
    /\ ~ctxDone
    /\ Len(listed) = 1
    /\ aggPc = "handle"

\* C13 (as claimed): the first step of monitorLoop is a call of
\* checkAllServices, every later call is one taken from the select, each call
\* lists at most once, and once Stop has cancelled the root context
\* checkAllServices is not entered again: GetAll neither succeeds nor fails.
C13_NoSweepAfterStop ==
    /\ [][(loopPc = "initial" /\ loopPc' /= "initial") =>
             loopPc' \in {"select", "launching", "failed"}]_vars
    /\ [][(loopPc' \in {"launching", "failed"} /\ loopPc \notin {"launching", "failed"}) =>
             loopPc \in {"initial", "select"}]_vars
    /\ [][listed' /= listed =>
             (Len(listed') = Len(listed) + 1 /\ loopPc' = "launching")]_vars
    /\ [][ctxDone =>
             /\ listed' = listed
             /\ loopPc' = "failed" => loopPc = "failed"]_vars

\* C13 (amended): as above, except that checkAllServices can still be entered
\* after Stop has cancelled the root context - at the initial check or at a
\* tick the select prefers to ctx.Done.  Such a call fails at GetAll: it lists
\* nothing and starts no probe.  The probes started after the cancellation
\* belong to a sweep whose listing was taken before it.
C13_NoListingAfterStop ==
    /\ [][(loopPc = "initial" /\ loopPc' /= "initial") =>
             loopPc' \in {"select", "launching", "failed"}]_vars
    /\ [][(loopPc' \in {"launching", "failed"} /\ loopPc \notin {"launching", "failed"}) =>
             loopPc \in {"initial", "select"}]_vars
    /\ [][listed' /= listed =>
             (Len(listed') = Len(listed) + 1 /\ loopPc' = "launching")]_vars
    /\ [][ctxDone =>
             /\ listed' = listed
             /\ (loopPc' = "launching" => loopPc = "launching")
             /\ (Len(probes') /= Len(probes) =>
                    (loopPc = "launching" /\ probes'[Len(probes')].sweep = Len(listed)))]_vars

\* Stop cancelled the root context while a sweep was in its range loop: the
\* sweep has started a probe since and is about to start another
C13_Witness ==
    /\ ctxDone
    /\ loopPc = "launching"
    /\ \E p \in ProbeIds : probes[p].late /\ probes[p].sweep = Len(listed)

\* C14: the step that creates a probe's context stores the probe's cancel
\* function under its service id, and that step comes before the request; a
\* probe that has not registered yet or has finished - whatever its status,
\* and whether its update was sent, dropped or given up at shutdown - is not
\* a value of activeChecks.
C14_RegisteredBeforeRequestGoneAfterEnd ==
    /\ [](\A p \in ProbeIds :
             probes[p].pc \in {"launched", "done"} => p \notin Registered(activeChecks))
    /\ [][\A p \in ProbeIds :
             /\ (probes[p].pc = "launched" /\ probes'[p].pc /= "launched") =>
                    /\ probes'[p].pc \in {"request", "publish"}
                    /\ activeChecks'[probes[p].svc] = p
             /\ (probes'[p].pc = "request" /\ probes[p].pc /= "request") =>
                    probes[p].pc = "launched"
             /\ (probes'[p].pc = "done" /\ probes[p].pc /= "done") =>
                    /\ probes[p].pc = "publish"
                    /\ p \notin Registered(activeChecks')]_vars

\* every probe has finished under a live root context, among them a probe
\* whose context ran into its deadline and a probe whose update was dropped
\* at the full channel, and the registry is empty
C14_Witness ==
    /\ ~ctxDone
    /\ AllProbesDone
    /\ Registered(activeChecks) = {}
    /\ \E p \in ProbeIds : probes[p].ctx = "deadline"
    /\ \E p \in ProbeIds : \A i \in 1..Len(accepted) : accepted[i].id /= p

\* C15: from its registration until it ends, a probe's cancel function is the
\* one activeChecks stores under the probe's service id, and the step that
\* ends a probe leaves the entries of the other probes as they are.
C15_RegistryHoldsOwnHandle ==
    /\ [](\A p \in ProbeIds :
             probes[p].pc \in {"request", "publish"} => activeChecks[probes[p].svc] = p)
    /\ [][\A p \in ProbeIds :
             (probes[p].pc = "publish" /\ probes'[p].pc = "done") =>
                 \A t \in Targets :
                     activeChecks[t] /= p => activeChecks'[t] = activeChecks[t]]_vars

\* C16: once Stop has cancelled the root context, no probe holds a live
\* context: the context of every probe that has one is finished (cancelled,
\* or past its deadline), whether or not activeChecks still stores the
\* probe's cancel function, and a probe that creates its context afterwards
\* gets a finished one.
C16_StopCancelsEveryProbe ==
    /\ [](ctxDone => \A p \in ProbeIds : probes[p].ctx /= "active")
    /\ [](stopPc /= "idle" => ctxDone)
    /\ [][\A p \in ProbeIds :
             (ctxDone /\ probes[p].pc = "launched" /\ probes'[p].pc /= "launched") =>
                 probes'[p].ctx = "canceled"]_vars

\* Stop is past its walk of activeChecks, which was empty: the first probe
\* is still in its request, its entry was removed by the probe of a later
\* sweep for the same service, and its context is cancelled all the same
C16_Witness ==
    /\ stopPc = "wait"
    /\ Len(probes) >= 2
    /\ probes[1].pc = "request"
    /\ probes[1].ctx = "canceled"
    /\ probes[2].pc = "done"
    /\ probes[2].svc = probes[1].svc
    /\ activeChecks[probes[1].svc] = 0

\* C17: under the fair scheduler a call of Stop returns, however many probes
\* are in flight, whatever the channel holds and whether or not a tick ever
\* comes again.
C17_StopReturns == (stopPc /= "idle") ~> (stopPc = "returned")

\* Stop has returned although the channel is full and handleUpdate was never
\* called, after a shutdown that a sweep in its range loop overlapped
C17_Witness ==
    /\ stopPc = "returned"
    /\ Len(updates) = capacity
    /\ handled = <<>>
    /\ \E p \in ProbeIds : probes[p].late

\* C18: under the fair scheduler every probe that was started finishes, with
\* or without a call of Stop; while its request is outstanding under a live
\* context the deadline can fire; a request that ends after the deadline has
\* fired gives timeout; and the probe then goes through its select once and
\* leaves no entry for its service in activeChecks.
C18_ProbeEnds ==
    /\ \A p \in 1..MaxProbes :
          (Len(probes) >= p) ~> (Len(probes) >= p /\ probes[p].pc = "done")
    /\ [](\A p \in ProbeIds :
             (probes[p].pc = "request" /\ probes[p].ctx = "active") => ENABLED DeadlineFire(p))
    /\ [][\A p \in ProbeIds :
             /\ (/\ probes[p].pc = "request"
                 /\ probes[p].ctx = "deadline"
                 /\ probes'[p].pc /= "request")
                => (probes'[p].pc = "publish" /\ probes'[p].status = StatusTimeout)
             /\ (probes[p].pc = "publish" /\ probes'[p].pc /= "publish")
                => (probes'[p].pc = "done" /\ activeChecks'[probes[p].svc] = 0)]_vars

\* Stop was never called; a probe ran into its deadline, its timeout update
\* was accepted by the channel, and the probe has finished
C18_Witness ==
    /\ stopPc = "idle"
    /\ \E p \in ProbeIds :
          /\ probes[p].pc = "done"
          /\ probes[p].ctx = "deadline"
          /\ activeChecks[probes[p].svc] = 0
          /\ \E i \in 1..Len(accepted) :
                accepted[i].id = p /\ accepted[i].Status = StatusTimeout

\* C19: the call of handleUpdate for an update ends in one step whether
\* UpdateStatus fails or not: processUpdates is back at its select, the
\* channel holds what it held, and the root context, Stop and monitorLoop are
\* where they were; a failed call leaves the store as it was.  An update
\* whose UpdateStatus failed is neither in the channel nor handled again, and
\* processUpdates can receive the next update.
C19_PersistenceFailureDiscards ==
    /\ [][(aggPc = "handle" /\ aggPc' /= "handle") =>
             /\ aggPc' = "select"
             /\ Len(handled') = Len(handled) + 1
             /\ handled'[Len(handled')].update = aggCur
             /\ ~handled'[Len(handled')].ok => store' = store
             /\ UNCHANGED <<updates, accepted, ctxDone, stopPc, loopPc, wg, closed,
                            panicked, probes>>]_vars
    /\ [](\A i \in 1..Len(handled) :
             ~handled[i].ok =>
                 /\ handled[i].update \notin Range(updates)
                 /\ handled[i].update /= aggCur
                 /\ \A j \in 1..Len(handled) : j /= i => handled[j].update /= handled[i].update)
    /\ [](aggPc = "handle" => ENABLED AggHandle(FALSE))
    /\ []((aggPc = "select" /\ updates /= <<>>) => ENABLED AggRecv)

\* under a live root context UpdateStatus failed for the first update, and
\* the second update was handled and is in the store
C19_Witness ==
    /\ ~ctxDone
    /\ Len(handled) = 2
    /\ ~handled[1].ok
    /\ handled[2].ok
    /\ store[handled[2].update.ServiceID].status = handled[2].update.Status
    /\ store[handled[2].update.ServiceID].response_time = handled[2].update.ResponseTime
    /\ handled[1].update.ServiceID /= handled[2].update.ServiceID
    /\ store[handled[1].update.ServiceID].response_time = 0

\* C20: whatever the client of the SSE feed does - not connected, listening
\* without reading, gone - a probe at its select, handleUpdate, the receive
\* of processUpdates from a non-empty channel and the steps of monitorLoop's
\* sweep can be taken; and the client is written no update twice: what it
\* was written are distinct accepted updates.
C20_NoBlockingOnSubscriber ==
    /\ \A p \in ProbeIds : probes[p].pc = "publish" => ENABLED ProbePublish(p)
    /\ aggPc = "handle" => ENABLED AggHandle(FALSE)
    /\ (aggPc = "select" /\ updates /= <<>>) => ENABLED AggRecv
    /\ loopPc = "launching" => ENABLED SweepLaunch
    /\ loopPc = "failed" => ENABLED SweepFailReturn
    /\ loopPc \in {"initial", "select"} => ENABLED SweepListFail
    /\ \A i, j \in 1..Len(sseSent) : i /= j => sseSent[i].id /= sseSent[j].id
    /\ \A i \in 1..Len(sseSent) :
          Cardinality({j \in 1..Len(accepted) : accepted[j] = sseSent[i]}) = 1

\* a client is connected and was written one update; since then it has not
\* read, and meanwhile every probe finished and handleUpdate ran for another
\* update
C20_Witness ==
    /\ ssePc = "listen"
    /\ ~ctxDone
    /\ Len(sseSent) = 1
    /\ Len(handled) = 1
    /\ AllProbesDone

\* C21: a call of UpdateStatus by handleUpdate creates no row and deletes
\* none, leaves every row but the one of the update's service id as it is,
\* and in that row changes nothing but status, response_time, last_check and
\* updated_at: id, name and url stay.
C21_EngineWritesStatusOnly ==
    [][(last'.op = "UpdateStatus" /\ now' /= now) =>
          \A t \in Targets :
              /\ (db'[t] = NoRow) <=> (db[t] = NoRow)
              /\ t /= last'.id => db'[t] = db[t]
              /\ db[t] /= NoRow =>
                     /\ db'[t].id = db[t].id
                     /\ db'[t].name = db[t].name
                     /\ db'[t].url = db[t].url]_vars

\* handleUpdate has just recorded a healthy status for one of two services:
\* its row carries the status and the time of the call, the other row is as
\* it was created
C21_Witness ==
    /\ last.op = "UpdateStatus"
    /\ ~last.err
    /\ db[last.id].status = StatusHealthy
    /\ db[last.id].response_time \in RTs
    /\ db[last.id].last_check = now
    /\ \E t \in Targets :
          /\ t /= last.id
          /\ db[t] /= NoRow
          /\ db[t].status = StatusUnknown
          /\ db[t].updated_at = 0

\* a row without its timestamps
Columns(r) == [id |-> r.id, name |-> r.name, url |-> r.url, status |-> r.status,
               response_time |-> r.response_time]

\* the table after UpdateStatus was called twice with the same arguments,
\* and after it was called once
Twice(id, status, rt) ==
    RepoUpdateStatus(RepoUpdateStatus(db, id, status, rt, now + 1).db,
                     id, status, rt, now + 2).db
Once(id, status, rt) == RepoUpdateStatus(db, id, status, rt, now + 1).db

\* C22 (as claimed): UpdateStatus called twice with the same arguments leaves
\* the table, timestamps aside, as one call does; and after a call the table
\* has a row for the id with the status, whether or not it had one before.
C22_IdempotentUpsert ==
    /\ \A id \in Targets, status \in Status, rt \in RTs, t \in Targets :
          Columns(Twice(id, status, rt)[t]) = Columns(Once(id, status, rt)[t])
    /\ last.op = "UpdateStatus" =>
          (~last.err /\ db[last.id] /= NoRow /\ db[last.id].status \in Status)

\* C22 (amended): UpdateStatus called twice with the same arguments leaves
\* the table, timestamps aside, as one call does.  It writes the status and
\* the response time into the row of the id when there is one; when there is
\* none it returns an error, creates no row and leaves the table as it is.
C22_IdempotentUpdate ==
    /\ \A id \in Targets, status \in Status, rt \in RTs, t \in Targets :
          Columns(Twice(id, status, rt)[t]) = Columns(Once(id, status, rt)[t])
    /\ \A id \in Targets, status \in Status, rt \in RTs :
          IF db[id] = NoRow
          THEN Once(id, status, rt) = db /\ RepoUpdateStatus(db, id, status, rt, now + 1).err
          ELSE /\ Once(id, status, rt)[id].status = status
               /\ Once(id, status, rt)[id].response_time = rt
               /\ ~RepoUpdateStatus(db, id, status, rt, now + 1).err
    /\ last.op = "UpdateStatus" => (last.err <=> db[last.id] = NoRow)

\* handleUpdate recorded an outcome, as the second call on the table, for a
\* service id that has no row (any more): the call failed and the table has
\* no row for the id
C22_Witness ==
    /\ last.op = "UpdateStatus"
    /\ last.err
    /\ db[last.id] = NoRow
    /\ now = 2
    /\ \E t \in Targets : db[t] /= NoRow

\* the goroutines m.wg counts: monitorLoop, processUpdates and the probes
\* that have not finished
Alive ==
    (IF loopPc \in {"none", "done"} THEN 0 ELSE 1)
        + (IF aggPc \in {"none", "done"} THEN 0 ELSE 1)
        + Cardinality({p \in ProbeIds : probes[p].pc /= "done"})

\* C23: a context that is finished - by its deadline, by the root context, by
\* the walk of Stop or by the probe's own deferred cancel - stays as it is
\* whatever is invoked on it afterwards, and nothing panics; a probe finishes
\* in one step that removes the entry of its service and takes one off the
\* WaitGroup, a finished probe does nothing more, and the WaitGroup counts
\* exactly the goroutines that have not finished.
C23_CancelIdempotent ==
    /\ [](~panicked /\ wg = Alive)
    /\ [][\A p \in ProbeIds :
             /\ probes[p].ctx \in {"canceled", "deadline"} => probes'[p].ctx = probes[p].ctx
             /\ probes[p].pc = "done" => probes'[p] = probes[p]
             /\ (probes[p].pc /= "done" /\ probes'[p].pc = "done") =>
                    (wg' = wg - 1 /\ activeChecks'[probes[p].svc] = 0)]_vars

\* the deadline of a probe fired while its request was outstanding; after
\* that Stop cancelled the root context and its walk invoked the probe's
\* cancel function, which activeChecks still stores; the probe's own deferred
\* call is still to come
C23_Witness ==
    /\ stopPc = "wait"
    /\ \E p \in ProbeIds :
          /\ probes[p].pc = "request"
          /\ probes[p].ctx = "deadline"
          /\ activeChecks[probes[p].svc] = p

\* C24: when every probe started so far has finished or has not registered
\* yet, activeChecks has no entry; in particular it has none once Stop has
\* returned; an entry always belongs to a probe between its registration
\* and its end.
C24_NoHandleLeak ==
    /\ (\A p \in ProbeIds : probes[p].pc \in {"launched", "done"}) =>
           activeChecks = [t \in Targets |-> 0]
    /\ stopPc = "returned" => activeChecks = [t \in Targets |-> 0]
    /\ \A t \in Targets :
          activeChecks[t] /= 0 =>
              /\ activeChecks[t] \in ProbeIds
              /\ probes[activeChecks[t]].svc = t
              /\ probes[activeChecks[t]].pc \in {"request", "publish"}

\* Stop has returned after two sweeps with probes for the same service: a
\* probe ran into its deadline, a probe was started after the cancellation,
\* an update was accepted; the registry is empty
C24_Witness ==
    /\ stopPc = "returned"
    /\ activeChecks = [t \in Targets |-> 0]
    /\ Len(probes) >= 2
    /\ probes[1].svc = probes[2].svc
    /\ \E p \in ProbeIds : probes[p].ctx = "deadline"
    /\ \E p \in ProbeIds : probes[p].late
    /\ accepted /= <<>>

\* C25: whatever calls of Start and Stop are made, nothing panics: the
\* channel is not closed a second time, and no probe is at its select, about
\* to send, when the channel is closed.
C25_LifecycleNoPanic ==
    /\ ~panicked
    /\ closed => \A p \in ProbeIds : probes[p].pc /= "publish"

\* C26: the walk of activeChecks in Stop calls the cancel function of every
\* entry it finds and leaves activeChecks as it is, and an entry leaves
\* activeChecks only in the step in which the probe that stored it ends.
C26_WalkRemovesNothing ==
    [][/\ (stopPc = "walk" /\ stopPc' = "wait") =>
              /\ activeChecks' = activeChecks
              /\ \A p \in Registered(activeChecks) :
                     probes'[p].ctx = Cancel(probes[p].ctx)
       /\ \A t \in Targets :
              (activeChecks[t] /= 0 /\ activeChecks'[t] = 0) =>
                  /\ probes[activeChecks[t]].pc = "publish"
                  /\ probes'[activeChecks[t]].pc = "done"]_vars

\* the updates processUpdates has taken from the channel, in the order of
\* the UpdateStatus calls made for them, the one in handleUpdate last
Issued ==
    [i \in 1..Len(handled) |-> handled[i].update] \o
        (IF aggPc = "handle" THEN <<aggCur>> ELSE <<>>)

\* the table after the UpdateStatus calls of h, made one after the other
RECURSIVE Replay(_, _)
Replay(st, h) ==
    IF h = <<>> THEN st
    ELSE Replay(IF Head(h).ok
                THEN UpdateStatus(st, Head(h).update.ServiceID, Head(h).update.Status,
                                  Head(h).update.ResponseTime)
                ELSE st,
                Tail(h))

\* C27: the UpdateStatus calls of the engine are made one at a time and in
\* the order in which the updates entered the channel: the updates taken
\* out so far, followed by the buffered ones, are the accepted ones in
\* their order; at most one update taken out has no finished call; and the
\* stored statuses are those the finished calls give when made in that order.
C27_OneCallAtATimeInOrder ==
    /\ Issued \o updates = accepted
    /\ Len(accepted) - Len(updates) - Len(handled) \in {0, 1}
    /\ (Len(accepted) - Len(updates) - Len(handled) = 1) <=> (aggPc = "handle")
    /\ store = Replay([t \in Targets |-> [status |-> StatusUnknown, response_time |-> 0]],
                      handled)

\* two probes of one sweep published different updates; the call for the
\* first has finished and changed the table, the call for the second is in
\* progress
C27_Witness ==
    /\ Len(accepted) = 2
    /\ accepted[1] /= accepted[2]
    /\ Len(handled) = 1
    /\ handled[1].ok
    /\ handled[1].update = accepted[1]
    /\ aggPc = "handle"
    /\ aggCur = accepted[2]
    /\ Len(listed) = 1

\* C28: once Stop has closed the channel, a handler of the feed that is in
\* its loop leaves it: it takes out what is buffered and returns on the
\* receive that reports the close; and at every turn of the loop the case
\* of the client's disconnect is open to it and ends the handler.
C28_SubscriberLoopEnds ==
    /\ (closed /\ ssePc = "listen") ~> (ssePc = "gone")
    /\ [](ssePc = "listen" => ENABLED SSEDisconnect)
    /\ [][ssePc = "gone" => ssePc' = "gone"]_vars

\* the handler has returned on the close of the channel after it wrote an
\* update to its client: Stop has returned and the client never went away
C28_Witness ==
    /\ closed
    /\ stopPc = "returned"
    /\ ssePc = "gone"
    /\ sseSent /= <<>>
    /\ updates = <<>>

\* C29: the Update call of an update request for path id X leaves the row of
\* every other id as it is, and the row stored under X keeps the id X.
C29_UpdateTouchesOnlyItsTarget ==
    [][(req.pc = "bound" /\ req'.pc = "idle") =>
           /\ \A t \in Targets \ {req.id} : db'[t] = db[t]
           /\ db[req.id] /= NoRow =>
                  (db'[req.id] /= NoRow /\ db'[req.id].id = req.id)]_vars

\* the table after Update and then UpdateStatus, and after the two calls in
\* the other order
UpdateThenRecord(svc, id, status, rt) ==
    RepoUpdateStatus(Update(db, svc, now + 1).db, id, status, rt, now + 2).db
RecordThenUpdate(svc, id, status, rt) ==
    Update(RepoUpdateStatus(db, id, status, rt, now + 1).db, svc, now + 2).db

\* C30: a step changes the status or the response time of a row only when it
\* is a successful UpdateStatus for the id of the row; a row that appears
\* was created and has the status unknown; and an Update and an
\* UpdateStatus give every row the same id, name, url, status and response
\* time whichever of the two is called first, for the service an update
\* request is about to pass to Update and every outcome.
C30_StatusWrittenByEngineOnly ==
    /\ [][\A t \in Targets :
             /\ (db[t] /= NoRow /\ db'[t] /= NoRow /\
                    (db'[t].status /= db[t].status \/
                     db'[t].response_time /= db[t].response_time)) =>
                    (last'.op = "UpdateStatus" /\ last'.id = t /\ ~last'.err)
             /\ (db[t] = NoRow /\ db'[t] /= NoRow) =>
                    (last'.op = "Create" /\ db'[t].status = StatusUnknown /\
                     db'[t].response_time = 0)]_vars
    /\ [](req.pc = "bound" =>
             \A id \in Targets, status \in Status, rt \in RTs, t \in Targets :
                 Columns(UpdateThenRecord(req.svc, id, status, rt)[t]) =
                     Columns(RecordThenUpdate(req.svc, id, status, rt)[t]))

\* an outcome was recorded for a service and its row was updated by a CRUD
\* request afterwards: the row still has the recorded status
C30_Witness ==
    /\ last.op = "Update"
    /\ ~last.err
    /\ \E t \in Targets :
          /\ db[t] /= NoRow
          /\ db[t].status = StatusHealthy
          /\ db[t].response_time \in RTs
          /\ db[t].last_check > 0
          /\ db[t].updated_at > db[t].last_check

\* the goroutines between a Lock of m.checksMutex and the Unlock after it
InCritical ==
    {p \in ProbeIds : probes[p].pc \in {"locked", "stored", "deleting", "deleted"}}
        \cup (IF stopPc \in {"walking", "walked"} THEN {StopCaller} ELSE {})

\* C31: at most one of the stores, deletes and walks of m.activeChecks is
\* between its Lock and its Unlock, and it is the holder of the mutex; a
\* step that changes m.activeChecks is a step of the probe that holds the
\* mutex, and the walk reads it while the caller of Stop holds the mutex.
C31_RegistryMutualExclusion ==
    /\ [](Cardinality(InCritical) <= 1)
    /\ [](InCritical = {checksMutex} \ {0})
    /\ [][/\ activeChecks' /= activeChecks =>
                /\ checksMutex \in ProbeIds
                /\ checksMutex' = checksMutex
                /\ probes'[checksMutex].pc /= probes[checksMutex].pc
          /\ (stopPc = "walking" /\ stopPc' = "walked") =>
                (checksMutex = StopCaller /\ checksMutex' = StopCaller)]_vars

\* a probe holds the mutex and has stored its cancel function, a second
\* probe waits for the mutex to store or to delete, and Stop waits for it
\* to walk
C31_Witness ==
    /\ checksMutex \in ProbeIds
    /\ probes[checksMutex].pc = "stored"
    /\ activeChecks[probes[checksMutex].svc] = checksMutex
    /\ stopPc = "walk"
    /\ \E q \in ProbeIds \ {checksMutex} : probes[q].pc \in {"launched", "cleanup"}

====
